---- MODULE Spec2Model ----
(***************************************************************************)
(* Local assembly kernels of src/1_Basic/1_myFEM/myIntegrator.cpp:         *)
(*   MyLaplaceIntegrator::CalcElementMatrix  (element stiffness matrix)    *)
(*   MySourceIntegrator::CalcElementVector   (element load vector)         *)
(*                                                                         *)
(* Arithmetic is exact integer arithmetic in fixed units: reference        *)
(* coordinates, shape values and quadrature weights are counted in sixths, *)
(* the measure in quarters.  An entry of elmat is therefore counted in     *)
(* 1/24, an entry of elvec in 1/144.  Floating-point rounding is not       *)
(* modelled.                                                               *)
(***************************************************************************)
EXTENDS Integers, Sequences, FiniteSets, TLC

\* ------------------------------------------------------------------ bounds
MaxCoef == 2
MaxGarbage == 2
MaxX == 2

Workers == {1, 2}

\* ------------------------------------------------- dense linear algebra
RECURSIVE SumSeq(_)
SumSeq(s) == IF s = <<>> THEN 0 ELSE Head(s) + SumSeq(Tail(s))

\* A * B for matrices stored as tuples of rows
MatMul(A, B) ==
  [r \in 1..Len(A) |->
     [c \in 1..Len(B[1]) |-> SumSeq([k \in 1..Len(B) |-> A[r][k] * B[k][c]])]]

Trans(A) == [c \in 1..Len(A[1]) |-> [r \in 1..Len(A) |-> A[r][c]]]

MatScale(s, A) == [r \in 1..Len(A) |-> [c \in 1..Len(A[r]) |-> s * A[r][c]]]

MatAdd(A, B) == [r \in 1..Len(A) |-> [c \in 1..Len(A[r]) |-> A[r][c] + B[r][c]]]

VecScale(s, v) == [r \in 1..Len(v) |-> s * v[r]]

VecAdd(u, v) == [r \in 1..Len(u) |-> u[r] + v[r]]

\* elmat = 0
ZeroMat(n) == [r \in 1..n |-> [c \in 1..n |-> 0]]

\* elvec = 0
ZeroVec(n) == [r \in 1..n |-> 0]

\* ------------------------------------------------------ finite elements
\* the element family the assemblers understand, and one outside of it
MyLinearTrig ==
  [family |-> "MyBaseElement", et |-> "ET_TRIG", order |-> 1, ndof |-> 3]

ForeignTrig ==
  [family |-> "FiniteElement", et |-> "ET_TRIG", order |-> 1, ndof |-> 3]

Elements == {MyLinearTrig, ForeignTrig}

\* shape values at a reference point: x, y, 1-x-y (in sixths)
CalcShape(fel, ip) == <<ip.x, ip.y, 6 - ip.x - ip.y>>

\* reference gradients, one row per shape function
CalcDShape(fel, ip) == << <<1, 0>>, <<0, 1>>, <<-1, -1>> >>

\* dynamic_cast<const MyBaseElement &> (base_fel) succeeds
DynamicCastOKUnchecked(base_fel) == TRUE

DynamicCastOK(base_fel) == base_fel.family = "MyBaseElement"

\* ---------------------------------------------------- integration rules
Centroid == <<[x |-> 2, y |-> 2, weight |-> 3]>>

InteriorRule ==
  <<[x |-> 4, y |-> 1, weight |-> 1],
    [x |-> 1, y |-> 4, weight |-> 1],
    [x |-> 1, y |-> 1, weight |-> 1]>>

MidpointRule ==
  <<[x |-> 3, y |-> 3, weight |-> 1],
    [x |-> 0, y |-> 3, weight |-> 1],
    [x |-> 3, y |-> 0, weight |-> 1]>>

\* the rules IntegrationRule(et, order) may return: all have positive
\* weights adding up to the area of the reference triangle (3 sixths)
IntegrationRule(et, order) ==
  IF order <= 1 THEN {Centroid} ELSE {InteriorRule, MidpointRule}

\* integration order passed to the rule
RuleOrderPlain(fel) == fel.order

RuleOrder(fel) == 2 * fel.order

\* ------------------------------------------------ element transformation
IdentityTrafo == [jacinv |-> << <<1, 0>>, <<0, 1>> >>, measure |-> 4]

ShearTrafo == [jacinv |-> << <<1, -1>>, <<0, 1>> >>, measure |-> 4]

HalfTrafo == [jacinv |-> << <<2, 0>>, <<0, 2>> >>, measure |-> 1]

Trafos == {IdentityTrafo, ShearTrafo, HalfTrafo}

\* MappedIntegrationPoint<2,2> mip(ir[i], eltrans)
MappedIntegrationPoint(ip, eltrans) ==
  [ip |-> ip, jacinv |-> eltrans.jacinv, measure |-> eltrans.measure]

\* ---------------------------------------------------------- coefficients
CoefScales == (-1)..MaxCoef

Coefs == [kind : {"const", "lin"}, k : CoefScales]

\* coef -> Evaluate (mip)
Evaluate(coef, mip) ==
  IF coef.kind = "const" THEN coef.k ELSE coef.k * mip.ip.x

\* ------------------------------------------------- per-point computations
\* dshape = dshape_ref * mip.GetJacobianInverse()
PhysicalGradient(dshape_ref, mip) == MatMul(dshape_ref, mip.jacinv)

\* fac = mip.IP().Weight() * mip.GetMeasure()
Fac(mip) == mip.ip.weight * mip.measure

\* elmat += (fac*lam) * dshape * Trans(dshape)
MatUpdateSum(m, fac, lam, dshape) ==
  MatAdd(m, MatScale(fac + lam, MatMul(dshape, Trans(dshape))))

MatUpdateRef(m, fac, lam, dshape) ==
  MatAdd(m, MatScale(fac * lam,
                     MatMul(dshape, Trans(CalcDShape(MyLinearTrig, Centroid[1])))))

MatUpdateNeg(m, fac, lam, dshape) ==
  MatAdd(m, MatScale(0 - (fac * lam), MatMul(dshape, Trans(dshape))))

MatUpdate(m, fac, lam, dshape) ==
  MatAdd(m, MatScale(fac * lam, MatMul(dshape, Trans(dshape))))

\* elvec += (fac*f) * shape
VecUpdateSum(v, fac, f, shape) == VecAdd(v, VecScale(fac + f, shape))

VecUpdate(v, fac, f, shape) == VecAdd(v, VecScale(fac * f, shape))

\* the output buffer after the zeroing statement
ZeroedMatKeep(m, n) == m

ZeroedMat(m, n) == ZeroMat(n)

ZeroedVecKeep(v, n) == v

ZeroedVec(v, n) == ZeroVec(n)

\* ------------------------------------------------------- caller's buffers
GarbageMat(g, n) == [r \in 1..n |-> [c \in 1..n |-> g * r + c]]

GarbageVec(g, n) == [r \in 1..n |-> g * r]

BufDim == MyLinearTrig.ndof

\* ------------------------------------------------------------ call inputs
Ops == {"matrix", "vector"}

Args == [op : Ops, fel : Elements, eltrans : Trafos, coef : Coefs]

\* the inputs used when two invocations run concurrently: worker 1 runs
\* with the plain coefficients, worker 2 with every multiple of them
ArgsPar(w) ==
  IF w = 1
  THEN [op : Ops, fel : {MyLinearTrig}, eltrans : {ShearTrafo},
        coef : [kind : {"lin"}, k : {1, 2}]]
  ELSE [op : Ops, fel : {MyLinearTrig}, eltrans : {ShearTrafo},
        coef : [kind : {"lin"}, k : CoefScales]]
       \cup [op : Ops, fel : {ForeignTrig}, eltrans : {ShearTrafo},
             coef : [kind : {"lin"}, k : {1}]]

NoArgs ==
  [op |-> "matrix", fel |-> MyLinearTrig, eltrans |-> IdentityTrafo,
   coef |-> [kind |-> "const", k |-> 0]]

\* temporaries of a call, each with the allocator that owns its storage
MatrixTemporaries == {<<"dshape_ref", "heap">>, <<"dshape", "heap">>}

VectorTemporaries == {<<"shape", "heap">>}

\* a function-local static is constructed by the first call that reaches it
StaticInitNeededAlways(init) == TRUE

StaticInitNeeded(init) == ~init

\* ------------------------------------------------------------------ state
VARIABLES
  pc,            \* position of each worker inside its current call
  args,          \* base_fel, eltrans and the integrator's coefficient
  elmat,         \* the caller's matrix buffer of each worker
  elvec,         \* the caller's vector buffer of each worker
  ir,            \* the integration rule of the current call
  i,             \* loop index into ir (0-based as in the source)
  live,          \* temporaries of the current call that are allocated
  timerInit,     \* the static Timer t of CalcElementMatrix is constructed
  regionOpen,    \* a RegionTracer of this worker's thread is alive
  before,        \* history: the output buffer as passed to the call
  irOrder,       \* history: the order the rule was requested with
  processed,     \* history: the loop indices accumulated, in order
  timerWriters,  \* history: workers whose call constructed the timer
  timerReaders   \* history: workers whose call used the timer

vars ==
  <<pc, args, elmat, elvec, ir, i, live, timerInit, regionOpen,
    before, irOrder, processed, timerWriters, timerReaders>>

Out(w) == IF args[w].op = "matrix" THEN elmat[w] ELSE elvec[w]

Init ==
  /\ pc = [w \in Workers |-> "idle"]
  /\ args = [w \in Workers |-> NoArgs]
  /\ elmat = [w \in Workers |-> GarbageMat(1, BufDim)]
  /\ elvec = [w \in Workers |-> GarbageVec(1, BufDim)]
  /\ ir = [w \in Workers |-> <<>>]
  /\ i = [w \in Workers |-> 0]
  /\ live = [w \in Workers |-> {}]
  /\ timerInit = FALSE
  /\ regionOpen = [w \in Workers |-> FALSE]
  /\ before = [w \in Workers |-> GarbageMat(1, BufDim)]
  /\ irOrder = [w \in Workers |-> 0]
  /\ processed = [w \in Workers |-> <<>>]
  /\ timerWriters = {}
  /\ timerReaders = {}

\* The caller invokes an assembler with inputs a.  The output buffer holds
\* what the caller left in it: its previous content (g = 0) or other data.
\* The buffer of the other kind is not part of the call and is recycled.
Call(w, A, G) ==
  /\ pc[w] = "idle"
  /\ \E a \in A, g \in G :
       LET m == IF a.op # "matrix" THEN GarbageMat(1, BufDim)
                ELSE IF g = 0 THEN elmat[w] ELSE GarbageMat(g, BufDim)
           v == IF a.op # "vector" THEN GarbageVec(1, BufDim)
                ELSE IF g = 0 THEN elvec[w] ELSE GarbageVec(g, BufDim)
       IN /\ args' = [args EXCEPT ![w] = a]
          /\ elmat' = [elmat EXCEPT ![w] = m]
          /\ elvec' = [elvec EXCEPT ![w] = v]
          /\ before' = [before EXCEPT ![w] = IF a.op = "matrix" THEN m ELSE v]
          /\ pc' = [pc EXCEPT ![w] = IF a.op = "matrix" THEN "timer" ELSE "cast"]
  /\ UNCHANGED <<ir, i, live, timerInit, regionOpen, irOrder, processed,
                 timerWriters, timerReaders>>

\* static Timer t(...); RegionTracer reg(TaskManager::GetThreadId(), t);
TimerRegion(w) ==
  /\ pc[w] = "timer"
  /\ timerInit' = TRUE
  /\ timerWriters' =
       IF StaticInitNeeded(timerInit) THEN timerWriters \cup {w} ELSE timerWriters
  /\ timerReaders' = timerReaders \cup {w}
  /\ regionOpen' = [regionOpen EXCEPT ![w] = TRUE]
  /\ pc' = [pc EXCEPT ![w] = "cast"]
  /\ UNCHANGED <<args, elmat, elvec, ir, i, live, before, irOrder, processed>>

\* the dynamic_cast succeeds
CastOk(w) ==
  /\ pc[w] = "cast"
  /\ DynamicCastOK(args[w].fel)
  /\ pc' = [pc EXCEPT ![w] = "zero"]
  /\ UNCHANGED <<args, elmat, elvec, ir, i, live, timerInit, regionOpen,
                 before, irOrder, processed, timerWriters, timerReaders>>

\* the dynamic_cast throws std::bad_cast; unwinding destroys reg
CastFail(w) ==
  /\ pc[w] = "cast"
  /\ ~DynamicCastOK(args[w].fel)
  /\ pc' = [pc EXCEPT ![w] = "failed"]
  /\ regionOpen' = [regionOpen EXCEPT ![w] = FALSE]
  /\ UNCHANGED <<args, elmat, elvec, ir, i, live, timerInit,
                 before, irOrder, processed, timerWriters, timerReaders>>

\* int ndof = fel.GetNDof(); elmat = 0;   resp.   elvec = 0;
Zero(w) ==
  /\ pc[w] = "zero"
  /\ LET ndof == args[w].fel.ndof
     IN IF args[w].op = "matrix"
        THEN /\ elmat' = [elmat EXCEPT ![w] = ZeroedMat(elmat[w], ndof)]
             /\ UNCHANGED elvec
        ELSE /\ elvec' = [elvec EXCEPT ![w] = ZeroedVec(elvec[w], ndof)]
             /\ UNCHANGED elmat
  /\ pc' = [pc EXCEPT ![w] = "alloc"]
  /\ UNCHANGED <<args, ir, i, live, timerInit, regionOpen,
                 before, irOrder, processed, timerWriters, timerReaders>>

\* Matrix<> dshape_ref(ndof, 2); Matrix<> dshape(ndof, 2);  resp.
\* Vector<> shape(ndof);
Alloc(w) ==
  /\ pc[w] = "alloc"
  /\ live' = [live EXCEPT ![w] = IF args[w].op = "matrix"
                                 THEN MatrixTemporaries
                                 ELSE VectorTemporaries]
  /\ pc' = [pc EXCEPT ![w] = "rule"]
  /\ UNCHANGED <<args, elmat, elvec, ir, i, timerInit, regionOpen,
                 before, irOrder, processed, timerWriters, timerReaders>>

\* IntegrationRule ir(fel.ElementType(), 2*fel.Order()); int i = 0;
BuildRule(w) ==
  /\ pc[w] = "rule"
  /\ \E r \in IntegrationRule(args[w].fel.et, RuleOrder(args[w].fel)) :
       ir' = [ir EXCEPT ![w] = r]
  /\ irOrder' = [irOrder EXCEPT ![w] = RuleOrder(args[w].fel)]
  /\ i' = [i EXCEPT ![w] = 0]
  /\ pc' = [pc EXCEPT ![w] = "loop"]
  /\ UNCHANGED <<args, elmat, elvec, live, timerInit, regionOpen,
                 before, processed, timerWriters, timerReaders>>

\* one pass through the loop body for integration point ir[i]
Point(w) ==
  /\ pc[w] = "loop"
  /\ i[w] < Len(ir[w])
  /\ LET fel == args[w].fel
         mip == MappedIntegrationPoint(ir[w][i[w] + 1], args[w].eltrans)
         val == Evaluate(args[w].coef, mip)
         fac == Fac(mip)
     IN IF args[w].op = "matrix"
        THEN LET dshape_ref == CalcDShape(fel, mip.ip)
                 dshape == PhysicalGradient(dshape_ref, mip)
             IN /\ elmat' = [elmat EXCEPT ![w] = MatUpdate(elmat[w], fac, val, dshape)]
                /\ UNCHANGED elvec
        ELSE LET shape == CalcShape(fel, mip.ip)
             IN /\ elvec' = [elvec EXCEPT ![w] = VecUpdate(elvec[w], fac, val, shape)]
                /\ UNCHANGED elmat
  /\ processed' = [processed EXCEPT ![w] = Append(processed[w], i[w])]
  /\ i' = [i EXCEPT ![w] = i[w] + 1]
  /\ UNCHANGED <<pc, args, ir, live, timerInit, regionOpen,
                 before, irOrder, timerWriters, timerReaders>>

\* i = ir.GetNIP(): the loop ends, the function returns and the
\* destructors of the temporaries and of reg run
LoopExit(w) ==
  /\ pc[w] = "loop"
  /\ ~(i[w] < Len(ir[w]))
  /\ pc' = [pc EXCEPT ![w] = "done"]
  /\ live' = [live EXCEPT ![w] = {}]
  /\ regionOpen' = [regionOpen EXCEPT ![w] = FALSE]
  /\ UNCHANGED <<args, elmat, elvec, ir, i, timerInit,
                 before, irOrder, processed, timerWriters, timerReaders>>

\* The call is over: its parameters and locals are gone.  The caller takes
\* the result, or the exception; it either leaves the buffers as they are
\* for its next call (keep) or hands the worker fresh ones.
Return(w, keep) ==
  /\ pc[w] \in {"done", "failed"}
  /\ pc' = [pc EXCEPT ![w] = "idle"]
  /\ args' = [args EXCEPT ![w] = NoArgs]
  /\ ir' = [ir EXCEPT ![w] = <<>>]
  /\ i' = [i EXCEPT ![w] = 0]
  /\ irOrder' = [irOrder EXCEPT ![w] = 0]
  /\ processed' = [processed EXCEPT ![w] = <<>>]
  /\ before' = [before EXCEPT ![w] = GarbageMat(1, BufDim)]
  /\ elmat' = [elmat EXCEPT ![w] = IF keep THEN elmat[w] ELSE GarbageMat(1, BufDim)]
  /\ elvec' = [elvec EXCEPT ![w] = IF keep THEN elvec[w] ELSE GarbageVec(1, BufDim)]
  /\ UNCHANGED <<live, timerInit, regionOpen, timerWriters, timerReaders>>

\* one caller, calls one after the other
Next ==
  \/ Call(1, Args, 0..MaxGarbage)
  \/ TimerRegion(1)
  \/ CastOk(1)
  \/ CastFail(1)
  \/ Zero(1)
  \/ Alloc(1)
  \/ BuildRule(1)
  \/ Point(1)
  \/ LoopExit(1)
  \/ Return(1, TRUE)

Spec == Init /\ [][Next]_vars

\* parallel worker tasks, each calling with its own buffers
NextPar ==
  \E w \in Workers :
    \/ Call(w, ArgsPar(w), IF w = 1 THEN {1} ELSE 1..MaxGarbage)
    \/ TimerRegion(w)
    \/ CastOk(w)
    \/ CastFail(w)
    \/ Zero(w)
    \/ Alloc(w)
    \/ BuildRule(w)
    \/ Point(w)
    \/ LoopExit(w)
    \/ Return(w, FALSE)

SpecPar == Init /\ [][NextPar]_vars

TypeOK ==
  /\ pc \in [Workers -> {"idle", "timer", "cast", "failed", "zero", "alloc",
                         "rule", "loop", "done"}]
  /\ args \in [Workers -> Args]
  /\ timerInit \in BOOLEAN
  /\ \A w \in Workers : i[w] \in 0..Len(ir[w])

\* ------------------------------------------------ what a call should yield
\* entry (r, d) of the physical gradients at ip, written out
GradEntry(a, ip, r, d) ==
  CalcDShape(a.fel, ip)[r][1] * a.eltrans.jacinv[1][d]
  + CalcDShape(a.fel, ip)[r][2] * a.eltrans.jacinv[2][d]

CoefAt(a, ip) == Evaluate(a.coef, MappedIntegrationPoint(ip, a.eltrans))

\* weight * measure * lambda * (grad_r . grad_c) at ip
PointMatEntry(a, ip, r, c) ==
  ip.weight * a.eltrans.measure * CoefAt(a, ip)
  * (GradEntry(a, ip, r, 1) * GradEntry(a, ip, c, 1)
     + GradEntry(a, ip, r, 2) * GradEntry(a, ip, c, 2))

\* weight * measure * f * shape_r at ip
PointVecEntry(a, ip, r) ==
  ip.weight * a.eltrans.measure * CoefAt(a, ip) * CalcShape(a.fel, ip)[r]

\* the quadrature sum over the first n points of rule
ExpectedMat(a, rule, n) ==
  [r \in 1..a.fel.ndof |->
     [c \in 1..a.fel.ndof |->
        SumSeq([k \in 1..n |-> PointMatEntry(a, rule[k], r, c)])]]

ExpectedVec(a, rule, n) ==
  [r \in 1..a.fel.ndof |-> SumSeq([k \in 1..n |-> PointVecEntry(a, rule[k], r)])]

Expected(a, rule, n) ==
  IF a.op = "matrix" THEN ExpectedMat(a, rule, n) ELSE ExpectedVec(a, rule, n)

Supported(fel) == fel.family = "MyBaseElement"

IsSymmetric(m) == \A r \in 1..Len(m) : \A c \in 1..Len(m) : m[r][c] = m[c][r]

\* x^T m x
Quadratic(m, x) ==
  SumSeq([r \in 1..Len(m) |-> SumSeq([c \in 1..Len(m) |-> x[r] * m[r][c] * x[c]])])

CoefAll(w, P(_)) ==
  \A k \in 1..Len(ir[w]) : P(CoefAt(args[w], ir[w][k]))

IsPositive(v) == v > 0

IsZero(v) == v = 0

IsOne(v) == v = 1

\* the analytic P1 Laplace matrix of the reference triangle, in 1/24:
\*   1/2 * [ 1 0 -1 ; 0 1 -1 ; -1 -1 2 ]
P1Laplace == << <<12, 0, -12>>, <<0, 12, -12>>, <<-12, -12, 24>> >>

\* --------------------------------------------------------------- claims

\* C1: a call with an element outside the supported family fails with the
\* invalid-element-kind error, and the output buffer then holds exactly
\* what it held when the call was made (neither zeroed nor accumulated).
ThmC1 ==
  \A w \in Workers :
    /\ (pc[w] # "idle" /\ ~Supported(args[w].fel)) =>
          /\ pc[w] \in {"timer", "cast", "failed"}
          /\ Out(w) = before[w]
    /\ pc[w] = "failed" => (~Supported(args[w].fel) /\ Out(w) = before[w])

WitC1 ==
  /\ pc[1] = "failed"
  /\ args[1].op = "matrix"
  /\ ~Supported(args[1].fel)
  /\ elmat[1] = GarbageMat(MaxGarbage, BufDim)

\* C2: for the order-1 triangle with identity geometry and lambda = 1 the
\* matrix returned by CalcElementMatrix is the analytic P1 Laplace matrix,
\* which is the quadrature sum of weight*measure*lambda * G * G^T.
ThmC2 ==
  \A w \in Workers :
    ( /\ pc[w] = "done"
      /\ args[w].op = "matrix"
      /\ args[w].fel = MyLinearTrig
      /\ args[w].eltrans = IdentityTrafo
      /\ CoefAll(w, IsOne) ) =>
        /\ elmat[w] = P1Laplace
        /\ elmat[w] = ExpectedMat(args[w], ir[w], Len(ir[w]))

WitC2 ==
  /\ pc[1] = "done"
  /\ args[1].op = "matrix"
  /\ args[1].fel = MyLinearTrig
  /\ args[1].eltrans = IdentityTrafo
  /\ args[1].coef = [kind |-> "const", k |-> 1]
  /\ Len(ir[1]) = 3
  /\ elmat[1] = P1Laplace

\* C3: in a valid call of CalcElementMatrix the output matrix is symmetric
\* after the zeroing, after every accumulated integration point and when
\* the call returns.
ThmC3 ==
  \A w \in Workers :
    (args[w].op = "matrix" /\ pc[w] \in {"alloc", "rule", "loop", "done"}) =>
       IsSymmetric(elmat[w])

WitC3 ==
  /\ pc[1] = "loop"
  /\ args[1].op = "matrix"
  /\ args[1].eltrans = ShearTrafo
  /\ i[1] = 2
  /\ ~IsSymmetric(before[1])
  /\ elmat[1] # ZeroMat(BufDim)

\* C4: if lambda is positive at every integration point, the matrix
\* returned by CalcElementMatrix is positive semi-definite: x^T M x >= 0
\* for every vector x.
ThmC4 ==
  \A w \in Workers :
    (pc[w] = "done" /\ args[w].op = "matrix" /\ CoefAll(w, IsPositive)) =>
       \A x \in [1..args[w].fel.ndof -> (0 - MaxX)..MaxX] :
          Quadratic(elmat[w], x) >= 0

WitC4 ==
  /\ pc[1] = "done"
  /\ args[1].op = "matrix"
  /\ args[1].eltrans = ShearTrafo
  /\ args[1].coef = [kind |-> "lin", k |-> MaxCoef]
  /\ CoefAll(1, IsPositive)
  /\ elmat[1] # ZeroMat(BufDim)

\* C5: with the same element, transformation and rule, a call whose
\* coefficient is c times the coefficient of another call returns c times
\* that call's vector (CalcElementVector) resp. matrix (CalcElementMatrix).
ThmC5 ==
  \A c \in (0 - MaxCoef)..MaxCoef :
    ( /\ pc[1] = "done"
      /\ pc[2] = "done"
      /\ args[1].op = args[2].op
      /\ args[1].fel = args[2].fel
      /\ args[1].eltrans = args[2].eltrans
      /\ ir[1] = ir[2]
      /\ args[1].coef.kind = args[2].coef.kind
      /\ args[2].coef.k = c * args[1].coef.k ) =>
        IF args[1].op = "matrix"
        THEN elmat[2] = MatScale(c, elmat[1])
        ELSE elvec[2] = VecScale(c, elvec[1])

WitC5 ==
  /\ pc[1] = "done"
  /\ pc[2] = "done"
  /\ args[1].op = "vector"
  /\ args[2].op = "vector"
  /\ ir[1] = ir[2]
  /\ args[1].coef.k = 1
  /\ args[2].coef.k = MaxCoef
  /\ elvec[1] # ZeroVec(BufDim)
  /\ elvec[2] = VecScale(MaxCoef, elvec[1])

\* C6: if the coefficient is 0 at every integration point, the call
\* returns with every entry of the output matrix resp. vector equal to 0,
\* whatever the buffer held before the call.
ThmC6 ==
  \A w \in Workers :
    (pc[w] = "done" /\ CoefAll(w, IsZero)) =>
       IF args[w].op = "matrix"
       THEN elmat[w] = ZeroMat(args[w].fel.ndof)
       ELSE elvec[w] = ZeroVec(args[w].fel.ndof)

WitC6 ==
  /\ pc[1] = "done"
  /\ args[1].op = "matrix"
  /\ CoefAll(1, IsZero)
  /\ before[1] # ZeroMat(BufDim)
  /\ elmat[1] = ZeroMat(BufDim)

\* C7 as stated: no variable written by one invocation is read or written
\* by another, and every buffer holds the result of its invocation alone.
ResultsAlone ==
  \A w \in Workers :
    pc[w] \in {"loop", "done"} => Out(w) = Expected(args[w], ir[w], i[w])

CexC7 ==
  /\ \A w1 \in timerWriters :
        \A w2 \in (timerWriters \cup timerReaders) : w1 = w2
  /\ ResultsAlone

\* C7: concurrent invocations share no mutable state except the static
\* profiling Timer of CalcElementMatrix, which the first invocation to
\* reach it constructs once and later ones only use; in every interleaving
\* each buffer holds, at every step of the loop and at the return, the
\* result of running its invocation alone.
ThmC7 ==
  /\ Cardinality(timerWriters) <= 1
  /\ (timerReaders # {} => timerInit)
  /\ \A w \in Workers : regionOpen[w] => w \in timerReaders
  /\ ResultsAlone

WitC7 ==
  /\ pc[1] = "loop"
  /\ pc[2] = "loop"
  /\ i[1] = 1
  /\ i[2] = 2
  /\ args[1].op = "matrix"
  /\ args[2].op = "matrix"
  /\ timerWriters = {2}
  /\ timerReaders = {1, 2}

\* C8: every temporary of a call is taken from the scratch allocator lh
\* passed to the call, and nothing the call allocated is live once the
\* call has exited, normally or with the invalid-element-kind error.
CexC8 ==
  \A w \in Workers :
    /\ \A t \in live[w] : t[2] = "lh"
    /\ pc[w] \in {"idle", "done", "failed"} => live[w] = {}

\* C9: the output of a call is a function of the call's element,
\* transformation and coefficient (and the rule built for the element)
\* only: it does not depend on the calls that ran before nor on what the
\* output buffer held.
ThmC9 ==
  \A w \in Workers :
    pc[w] = "done" => Out(w) = Expected(args[w], ir[w], Len(ir[w]))

WitC9 ==
  /\ pc[1] = "done"
  /\ args[1].op = "vector"
  /\ timerInit
  /\ \A g \in 1..MaxGarbage : before[1] # GarbageVec(g, BufDim)
  /\ before[1] # ZeroVec(BufDim)
  /\ elvec[1] # before[1]

====
